---- MODULE Spec2Model ----
(***************************************************************************)
(* Model of src/main.py: the ParticleCanvas particle field (animation      *)
(* loop, resize, population count) and the TranslatorApp background-task   *)
(* coordination (worker threads, UI-thread callbacks, debounce timer,      *)
(* bounded history).                                                       *)
(*                                                                         *)
(* Positions and velocities are floats in the source; here they are fixed  *)
(* point numbers in units of 1/Scale pixel.  The `random` module is a      *)
(* stream of draws: every operation picks a stream (\E seed \in Seeds) and *)
(* its k-th draw is Draw(seed, k).                                         *)
(***************************************************************************)
EXTENDS Integers, Sequences, FiniteSets, TLC

(* ---------------- program constants ---------------- *)
MinCount == 5
MaxCount == 150
DefaultCount == 40
MinSize == 6
MaxSize == 50
NumColors == 5
AnimateDelay == 35
auto_translate_delay == 650
PasteDelay == 10
HistoryMaxLen == 10
PreviewLen == 120

(* ---------------- bounds of the model ---------------- *)
\* positions are counted in 1/Scale pixel
Scale == 1
\* number of particle-field operations in one run
MaxSteps == 3

\* streams of the random module an operation may draw from
Seeds == {0, 1}
\* particle_count arguments given to the constructor
InitCounts == {2, DefaultCount}
\* arguments given to set_particle_count
CountInputs == {3, 10, 40, 151}
\* widths and heights (pixels) a <Configure> event reports
DimChoices == {1, 3}
\* user events (key releases, pastes, button presses) in one run of the translator
MaxEvents == 3
\* translations requested in one run of the history log
MaxRequests == 11

VARIABLES
    particles,      \* ParticleCanvas.particles: sequence of particle records
    desired_count,  \* ParticleCanvas.desired_count
    width,          \* winfo_width() of the canvas
    height,         \* winfo_height() of the canvas
    canvas,         \* the Tk canvas: live item ids, next id, coords and delete calls
    timers,         \* the Tk `after` queue: pending callbacks in firing order
    nextAfter,      \* number of the next `after` handle
    now,            \* the clock, in ms
    steps,          \* operations run so far
    lastOp,         \* the operation that produced this state, with its arguments
    prevOp,         \* the operation before it
    source_text,    \* content of the input Text widget
    output_text,    \* content of the output Text widget
    status,         \* status_var
    last_translation,
    last_detected,
    history,        \* the deque(maxlen=10)
    typing_job,     \* handle of the debounce timer, 0 for None
    source_lang,    \* source_lang_var
    target_lang,    \* target_lang_var
    source_last_selection,  \* the last language accepted in the source dropdown
    target_last_selection,  \* the last language accepted in the target dropdown
    workers,        \* the threads started so far, by number
    events,         \* user events so far
    actor,          \* the thread that took the last step, and what it ran
    burst,          \* when the last input-change event ran, the timer's translate() calls
                    \* since, and whether translate() was called by hand during the burst
    applied         \* every history entry recorded so far, in order

uiState == <<output_text, status, last_translation, last_detected, history>>
appVars == <<source_text, output_text, status, last_translation, last_detected, history,
             typing_job, source_lang, target_lang, source_last_selection,
             target_last_selection, workers, events, actor, burst, applied>>
vars == <<particles, desired_count, width, height, canvas,
          timers, nextAfter, now, steps, lastOp, prevOp,
          source_text, output_text, status, last_translation, last_detected, history,
          typing_job, source_lang, target_lang, source_last_selection,
          target_last_selection, workers, events, actor, burst, applied>>

(* ---------------- the random module ---------------- *)
\* the k-th draw of stream `seed`: a small hash, uniform enough on small ranges
Draw(seed, k) ==
    LET a == (k * 37 + seed * 101 + 11) % 1013
        b == (a * a * 7 + a * 13 + 5) % 1009
    IN (b * b + a) % 997

\* random.randint(lo, hi)
RandInt(seed, k, lo, hi) == lo + (Draw(seed, k) % (hi - lo + 1))

\* random.uniform(-1.5, 1.5) and random.uniform(0.3, 1.6) on the 1/Scale grid
DxMax == (3 * Scale) \div 2
DyMin == (3 * Scale + 9) \div 10
DyMax == (16 * Scale) \div 10

Max(a, b) == IF a >= b THEN a ELSE b
Min(a, b) == IF a <= b THEN a ELSE b

\* winfo_width() or 1
Or1(v) == IF v = 0 THEN 1 ELSE v

(* ---------------- ParticleCanvas ---------------- *)
\* _create_particle: the draws k..k+3 of the stream, the oval gets canvas id `id`
CreateParticle(seed, k, id) ==
    [x |-> 0,
     y |-> 0,
     dx |-> RandInt(seed, k + 1, -DxMax, DxMax),
     dy |-> RandInt(seed, k + 2, DyMin, DyMax),
     size |-> RandInt(seed, k, MinSize, MaxSize),
     color |-> RandInt(seed, k + 3, 1, NumColors),
     id |-> id]

\* a scatter that returns only when both dimensions are <= 1
ScatterParticlesBoth(ps, w, h, seed) ==
    IF w <= 1 /\ h <= 1
    THEN ps
    ELSE [i \in 1..Len(ps) |->
            [ps[i] EXCEPT !.x = RandInt(seed, 2 * (i - 1), 0, w) * Scale,
                          !.y = RandInt(seed, 2 * (i - 1) + 1, 0, h) * Scale]]

\* a scatter that places particles up to one viewport beyond the right edge
ScatterParticlesWide(ps, w, h, seed) ==
    IF w <= 1 \/ h <= 1
    THEN ps
    ELSE [i \in 1..Len(ps) |->
            [ps[i] EXCEPT !.x = RandInt(seed, 2 * (i - 1), 0, 2 * w) * Scale,
                          !.y = RandInt(seed, 2 * (i - 1) + 1, 0, h) * Scale]]

\* _scatter_particles(width, height)
ScatterParticles(ps, w, h, seed) ==
    IF w <= 1 \/ h <= 1
    THEN ps
    ELSE [i \in 1..Len(ps) |->
            [ps[i] EXCEPT !.x = RandInt(seed, 2 * (i - 1), 0, w) * Scale,
                          !.y = RandInt(seed, 2 * (i - 1) + 1, 0, h) * Scale]]

\* the _draw_particle calls of _scatter_particles
ScatterDraws(ps, w, h) == IF w <= 1 \/ h <= 1 THEN 0 ELSE Len(ps)

\* count = max(5, min(count, 150))
ClampCount(n) == Max(MinCount, Min(n, MaxCount))

\* a set_particle_count that converges gradually: one particle per call
GrowLoopOnePass(ps, current, count, seed, k0, id, wh) ==
    IF current < count
    THEN Append(ps, [CreateParticle(seed, k0, id) EXCEPT
                        !.x = RandInt(seed, k0 + 4, 0, Or1(wh[1])) * Scale,
                        !.y = RandInt(seed, k0 + 5, 0, Or1(wh[2])) * Scale])
    ELSE ps

\* set_particle_count, first loop: while current < count, one pass per j
\* (pass j takes the six draws from k0 + 6(j-1) on and the canvas id `id + j - 1`)
GrowLoop(ps, current, count, seed, k0, id, wh) ==
    IF current < count
    THEN ps \o [j \in 1..(count - current) |->
                 [CreateParticle(seed, k0 + 6 * (j - 1), id + j - 1) EXCEPT
                    !.x = RandInt(seed, k0 + 6 * (j - 1) + 4, 0, Or1(wh[1])) * Scale,
                    !.y = RandInt(seed, k0 + 6 * (j - 1) + 5, 0, Or1(wh[2])) * Scale]]
    ELSE ps

\* a shrink loop that takes the particles from the front: pop(0)
ShrinkLoopFront(ps, current, count) ==
    IF current > count /\ Len(ps) > 0
    THEN SubSeq(ps, Min(current - count, Len(ps)) + 1, Len(ps))
    ELSE ps

\* set_particle_count, second loop: while current > count and self.particles: pop()
ShrinkLoop(ps, current, count) ==
    IF current > count /\ Len(ps) > 0
    THEN SubSeq(ps, 1, Len(ps) - Min(current - count, Len(ps)))
    ELSE ps

\* a set_particle_count that rebuilds the whole collection
SetCountRebuild(ps, n, seed, k0, id, wh) ==
    GrowLoop(<<>>, 0, ClampCount(n), seed, k0, id, wh)

\* set_particle_count(count): the particle list it leaves (its draws start at k0)
SetCountParticles(ps, n, seed, k0, id, wh) ==
    LET count == ClampCount(n)
        current == Len(ps)
        grown == GrowLoop(ps, current, count, seed, k0, id, wh)
    IN ShrinkLoop(grown, Len(grown), count)

ItemIds(ps) == {ps[i].id : i \in 1..Len(ps)}

\* the canvas after set_particle_count took the list from ps to qs
SetCountCanvas(cv, ps, qs) ==
    LET created == ItemIds(qs) \ ItemIds(ps)
        removed == ItemIds(ps) \ ItemIds(qs)
    IN [items |-> (cv.items \cup created) \ removed,
        next |-> cv.next + Cardinality(created),
        draws |-> cv.draws + Cardinality(created),
        deletes |-> cv.deletes + Cardinality(removed)]

\* a tick whose bounce needs the particle strictly beyond an edge
AnimateParticleStrict(p, w, h, seed, k) ==
    LET x1 == p.x + p.dx
        y1 == p.y + p.dy
        dx1 == IF x1 < 0 \/ x1 > w * Scale THEN -p.dx ELSE p.dx
        wrap == y1 >= h * Scale
    IN [p EXCEPT !.x = IF wrap THEN RandInt(seed, k, 0, w) * Scale ELSE x1,
                 !.y = IF wrap THEN -p.size * Scale ELSE y1,
                 !.dx = dx1]

\* a tick whose wrap needs the particle strictly below the bottom edge
AnimateParticleWrapBelow(p, w, h, seed, k) ==
    LET x1 == p.x + p.dx
        y1 == p.y + p.dy
        dx1 == IF x1 <= 0 \/ x1 >= w * Scale THEN -p.dx ELSE p.dx
        wrap == y1 > h * Scale
    IN [p EXCEPT !.x = IF wrap THEN RandInt(seed, k, 0, w) * Scale ELSE x1,
                 !.y = IF wrap THEN -p.size * Scale ELSE y1,
                 !.dx = dx1]

\* _animate, one particle: advance, bounce, wrap (the wrap takes draw k)
AnimateParticle(p, w, h, seed, k) ==
    LET x1 == p.x + p.dx
        y1 == p.y + p.dy
        dx1 == IF x1 <= 0 \/ x1 >= w * Scale THEN -p.dx ELSE p.dx
        wrap == y1 >= h * Scale
    IN [p EXCEPT !.x = IF wrap THEN RandInt(seed, k, 0, w) * Scale ELSE x1,
                 !.y = IF wrap THEN -p.size * Scale ELSE y1,
                 !.dx = dx1]

\* _animate, the loop over self.particles: a wrap of particle i takes draw i - 1
\* of the tick's stream
AnimateLoop(ps, w, h, seed) ==
    [i \in 1..Len(ps) |-> AnimateParticle(ps[i], w, h, seed, i - 1)]

(* ---------------- the Tk scheduler ---------------- *)
NoResult == [text |-> <<>>, src |-> "", dest |-> ""]
\* what a callback closes over: the worker whose frame it reads, a result
NoArg == [w |-> 0, res |-> NoResult]

\* widget.after(ms, callback) at time t with handle id: the queue stays in firing order
After(q, id, t, ms, cb, arg) ==
    LET e == [id |-> id, due |-> t + ms, cb |-> cb, arg |-> arg]
    IN SelectSeq(q, LAMBDA x : x.due <= e.due) \o <<e>> \o SelectSeq(q, LAMBDA x : x.due > e.due)

\* widget.after_cancel(id): an unknown or fired handle is ignored
AfterCancel(q, id) == SelectSeq(q, LAMBDA x : x.id # id)

(* ---------------- TranslatorApp: helpers ---------------- *)
Whitespace == {" ", "\n", "\t"}

\* str.strip()
Strip(s) ==
    LET keep == {i \in 1..Len(s) : s[i] \notin Whitespace}
    IN IF keep = {}
       THEN <<>>
       ELSE SubSeq(s, CHOOSE i \in keep : \A j \in keep : i <= j,
                      CHOOSE i \in keep : \A j \in keep : i >= j)

\* Text.get("1.0", END): Tk ends the content with a newline
TextGet(s) == s \o <<"\n">>

\* the part of googletrans.LANGUAGES the model uses
LANGUAGE_MAP ==
    [n \in {"English", "Hindi", "Spanish"} |->
        IF n = "English" THEN "en" ELSE IF n = "Hindi" THEN "hi" ELSE "es"]

\* CODE_TO_NAME.get(code, code)
CodeToName(code) ==
    IF \E n \in DOMAIN LANGUAGE_MAP : LANGUAGE_MAP[n] = code
    THEN CHOOSE n \in DOMAIN LANGUAGE_MAP : LANGUAGE_MAP[n] = code
    ELSE code

\* _record_history: (source[:120] + ELLIPSIS) if len(source) > 120 else source
Preview(s) == IF Len(s) > PreviewLen THEN SubSeq(s, 1, PreviewLen) \o <<"...">> ELSE s

\* a deque that keeps every entry
DequeAppendUnbounded(h, e) == Append(h, e)

\* deque(maxlen=10).append
DequeAppend(h, e) == IF Len(h) >= HistoryMaxLen THEN Append(Tail(h), e) ELSE Append(h, e)

\* TranslatorApp.__init__
InitTranslator ==
    /\ source_text = <<>>
    /\ output_text = [body |-> <<>>, note |-> ""]
    /\ status = <<"Ready. Press Translate or Ctrl+Enter.">>
    /\ last_translation = <<>>
    /\ last_detected = ""
    /\ history = <<>>
    /\ typing_job = 0
    /\ source_lang = "Auto Detect"
    /\ target_lang = "English"
    /\ source_last_selection = "Auto Detect"
    /\ target_last_selection = "English"
    /\ workers = <<>>
    /\ events = 0
    /\ actor = [thread |-> "ui", ran |-> "init", w |-> 0]
    /\ burst = [last |-> -1, calls |-> <<>>, manual |-> FALSE]
    /\ applied = <<>>

\* the translator with the particle layer left aside: the two share only the scheduler
InitApp ==
    /\ particles = <<>>
    /\ desired_count = 0
    /\ width = 1
    /\ height = 1
    /\ canvas = [items |-> {}, next |-> 1, draws |-> 0, deletes |-> 0]
    /\ timers = <<>>
    /\ nextAfter = 1
    /\ now = 0
    /\ steps = 0
    /\ lastOp = [op |-> "none", arg |-> <<>>]
    /\ prevOp = [op |-> "none", arg |-> <<>>]
    /\ InitTranslator

UnchangedField == UNCHANGED <<particles, desired_count, width, height, canvas, steps, lastOp, prevOp>>

\* the dropdowns' handler did not run
UnchangedSelection == UNCHANGED <<source_last_selection, target_last_selection>>

\* threading.Thread(target=..., args=..., daemon=True).start(); `cleared` records
\* that clear_text() ran after the thread was started
NewWorker(kind, text, src, dest) ==
    [kind |-> kind, text |-> text, src |-> src, dest |-> dest,
     pc |-> "call", outcome |-> "none", value |-> NoResult, exc |-> "",
     excBound |-> FALSE, enq |-> <<>>, ran |-> <<>>, got |-> NoResult, gotExc |-> "",
     cleared |-> FALSE]

(* ---------------- TranslatorApp: bodies run on the UI thread ---------------- *)
\* translate(), with the scheduler queue q it finds; `via` is who called it
TranslateBody(q, via) ==
    LET text == Strip(TextGet(source_text)) IN
    /\ timers' = q
    /\ burst' = IF via = "timer"
                THEN [burst EXCEPT !.calls = Append(@, now)]
                ELSE [burst EXCEPT !.manual = TRUE]
    /\ actor' = [thread |-> "ui", ran |-> "translate", w |-> 0]
    /\ IF text = <<>>
       THEN /\ status' = <<"Type something to translate.">>
            /\ UNCHANGED <<workers, typing_job>>
       ELSE /\ status' = <<"Translating">>
            /\ workers' = Append(workers,
                    NewWorker("translate", text,
                              IF source_lang = "Auto Detect" THEN "auto"
                              ELSE LANGUAGE_MAP[source_lang],
                              LANGUAGE_MAP[target_lang]))
            /\ typing_job' = 0
    /\ UNCHANGED <<nextAfter, source_text, output_text, last_translation, last_detected,
                   history, source_lang, target_lang, applied>>

\* an _on_input_change that schedules without cancelling
OnInputChangeNoCancel(q) ==
    /\ timers' = After(q, nextAfter, now, auto_translate_delay, "translate", NoArg)
    /\ typing_job' = nextAfter
    /\ nextAfter' = nextAfter + 1
    /\ burst' = [last |-> now, calls |-> <<>>,
                 manual |-> burst.manual /\ \E i \in 1..Len(q) : q[i].cb = "translate"]
    /\ actor' = [thread |-> "ui", ran |-> "on_input_change", w |-> 0]
    /\ UNCHANGED <<output_text, status, last_translation, last_detected, history,
                   source_lang, target_lang, workers, applied>>

\* _on_input_change(), with the scheduler queue q it finds
OnInputChangeBody(q) ==
    /\ timers' = After(IF typing_job # 0 THEN AfterCancel(q, typing_job) ELSE q,
                       nextAfter, now, auto_translate_delay, "translate", NoArg)
    /\ typing_job' = nextAfter
    /\ nextAfter' = nextAfter + 1
    /\ burst' = [last |-> now, calls |-> <<>>,
                 manual |-> burst.manual /\ \E i \in 1..Len(q) : q[i].cb = "translate"]
    /\ actor' = [thread |-> "ui", ran |-> "on_input_change", w |-> 0]
    /\ UNCHANGED <<output_text, status, last_translation, last_detected, history,
                   source_lang, target_lang, workers, applied>>

\* the history entry _apply_translation records for `result`
HistoryEntry(result) ==
    <<Preview(Strip(TextGet(source_text))), Preview(Strip(result.text)),
      CodeToName(result.src), CodeToName(result.dest)>>

\* an _apply_translation with a request token: a result older than one already
\* applied is dropped
ApplyTranslationIfNewest(result, w) ==
    IF \E v \in (w + 1)..Len(workers) : workers[v].kind = "translate" /\ workers[v].ran # <<>>
    THEN /\ workers' = [workers EXCEPT ![w].ran = Append(@, "apply"), ![w].got = result]
         /\ actor' = [thread |-> "ui", ran |-> "apply", w |-> w]
         /\ UNCHANGED <<last_translation, last_detected, output_text, status, history, applied>>
    ELSE LET translation == Strip(result.text)
             detected == CodeToName(result.src)
             target == CodeToName(result.dest)
         IN /\ last_translation' = translation
            /\ last_detected' = detected
            /\ output_text' = [body |-> translation, note |-> detected]
            /\ status' = <<"Translated", detected, target>>
            /\ history' = DequeAppend(history, HistoryEntry(result))
            /\ applied' = Append(applied, HistoryEntry(result))
            /\ workers' = [workers EXCEPT ![w].ran = Append(@, "apply"), ![w].got = result]
            /\ actor' = [thread |-> "ui", ran |-> "apply", w |-> w]

\* _apply_translation(result), run for worker w's callback
ApplyTranslationBody(result, w) ==
    LET translation == Strip(result.text)
        detected == CodeToName(result.src)
        target == CodeToName(result.dest)
    IN /\ last_translation' = translation
       /\ last_detected' = detected
       /\ output_text' = [body |-> translation, note |-> detected]
       /\ status' = <<"Translated", detected, target>>
       /\ history' = DequeAppend(history, HistoryEntry(result))
       /\ applied' = Append(applied, HistoryEntry(result))
       /\ workers' = [workers EXCEPT ![w].ran = Append(@, "apply"), ![w].got = result]
       /\ actor' = [thread |-> "ui", ran |-> "apply", w |-> w]

(* ---------------- TranslatorApp: user events ---------------- *)
\* <KeyRelease> in the input widget, whose content is now t
KeyRelease(t) ==
    /\ events' = events + 1
    /\ source_text' = t
    /\ OnInputChangeBody(timers)
    /\ UNCHANGED now
    /\ UnchangedField
    /\ UnchangedSelection

\* <<Paste>>: root.after(10, self._on_input_change), then the class binding inserts
Paste(t) ==
    /\ events' = events + 1
    /\ source_text' = t
    /\ timers' = After(timers, nextAfter, now, PasteDelay, "on_input_change", NoArg)
    /\ nextAfter' = nextAfter + 1
    /\ actor' = [thread |-> "ui", ran |-> "paste", w |-> 0]
    /\ UNCHANGED <<now, output_text, status, last_translation, last_detected, history,
                   typing_job, source_lang, target_lang, workers, burst, applied>>
    /\ UnchangedField
    /\ UnchangedSelection

\* the Translate button, <Control-Return>, <Control-KP_Enter>
TranslatePressed ==
    /\ events' = events + 1
    /\ TranslateBody(timers, "manual")
    /\ UNCHANGED now
    /\ UnchangedField
    /\ UnchangedSelection

\* a speak_translation that refuses while a speech worker is inside the engine
SpeakTranslationExclusive ==
    /\ events' = events + 1
    /\ actor' = [thread |-> "ui", ran |-> "speak_translation", w |-> 0]
    /\ IF Strip(last_translation) = <<>>
       THEN /\ status' = <<"Nothing to speak. Translate first.">>
            /\ UNCHANGED workers
       ELSE IF \E w \in 1..Len(workers) : workers[w].kind = "speak" /\ workers[w].pc = "call"
       THEN /\ status' = <<"Already speaking">>
            /\ UNCHANGED workers
       ELSE /\ status' = <<"Speaking">>
            /\ workers' = Append(workers, NewWorker("speak", Strip(last_translation), "", ""))
    /\ UNCHANGED <<timers, nextAfter, now, source_text, output_text, last_translation,
                   last_detected, history, typing_job, source_lang, target_lang, burst, applied>>
    /\ UnchangedField
    /\ UnchangedSelection

\* speak_translation()
SpeakTranslation ==
    /\ events' = events + 1
    /\ actor' = [thread |-> "ui", ran |-> "speak_translation", w |-> 0]
    /\ IF Strip(last_translation) = <<>>
       THEN /\ status' = <<"Nothing to speak. Translate first.">>
            /\ UNCHANGED workers
       ELSE /\ status' = <<"Speaking">>
            /\ workers' = Append(workers, NewWorker("speak", Strip(last_translation), "", ""))
    /\ UNCHANGED <<timers, nextAfter, now, source_text, output_text, last_translation,
                   last_detected, history, typing_job, source_lang, target_lang, burst, applied>>
    /\ UnchangedField
    /\ UnchangedSelection

\* clear_text(): the Clear button, <Control-l>, <Control-L>; no timer is cancelled
\* and no worker is told
ClearText ==
    /\ events' = events + 1
    /\ source_text' = <<>>
    /\ output_text' = [body |-> <<>>, note |-> ""]
    /\ last_translation' = <<>>
    /\ last_detected' = ""
    /\ status' = <<"Cleared input and output.">>
    /\ workers' = [w \in 1..Len(workers) |-> [workers[w] EXCEPT !.cleared = TRUE]]
    /\ actor' = [thread |-> "ui", ran |-> "clear_text", w |-> 0]
    /\ UNCHANGED <<timers, nextAfter, now, history, typing_job, source_lang, target_lang,
                   burst, applied>>
    /\ UnchangedField
    /\ UnchangedSelection

\* self.dropdown_headers, the two separator rows of the dropdowns
dropdown_headers == {"- Popular -", "- All Languages -"}

\* the rows of the source dropdown: "Auto Detect", then self.language_options
SourceValues == {"Auto Detect"} \cup dropdown_headers \cup DOMAIN LANGUAGE_MAP

\* what the target dropdown's handler may find in its variable: a row of
\* self.language_options, or the "Auto Detect" its second guard is written for
TargetValues == dropdown_headers \cup DOMAIN LANGUAGE_MAP \cup {"Auto Detect"}

\* a handler that accepts whatever row was picked
HandleComboSelectionAcceptsAll(value, allow_auto, srcLast, tgtLast) ==
    IF allow_auto
    THEN [var |-> value, source_last_selection |-> value, target_last_selection |-> tgtLast]
    ELSE [var |-> value, source_last_selection |-> srcLast, target_last_selection |-> value]

\* _handle_combo_selection(combo, var, allow_auto) finding `value` in var: what it
\* leaves in var and in the two last selections
HandleComboSelection(value, allow_auto, srcLast, tgtLast) ==
    IF value \in dropdown_headers
    THEN [var |-> IF allow_auto THEN srcLast ELSE tgtLast,
          source_last_selection |-> srcLast, target_last_selection |-> tgtLast]
    ELSE IF ~allow_auto /\ value = "Auto Detect"
    THEN [var |-> tgtLast, source_last_selection |-> srcLast, target_last_selection |-> tgtLast]
    ELSE IF allow_auto
    THEN [var |-> value, source_last_selection |-> value, target_last_selection |-> tgtLast]
    ELSE [var |-> value, source_last_selection |-> srcLast, target_last_selection |-> value]

\* the user picks row v of the source dropdown: the readonly combobox writes it to
\* source_lang_var and <<ComboboxSelected>> runs the handler before any other event
SelectSource(v) ==
    LET r == HandleComboSelection(v, TRUE, source_last_selection, target_last_selection) IN
    /\ source_lang' = r.var
    /\ source_last_selection' = r.source_last_selection
    /\ target_last_selection' = r.target_last_selection
    /\ actor' = [thread |-> "ui", ran |-> "source_selected", w |-> 0]
    /\ UNCHANGED <<timers, nextAfter, now, source_text, output_text, status, last_translation,
                   last_detected, history, typing_job, target_lang, workers, events, burst,
                   applied>>
    /\ UnchangedField

\* the same for the target dropdown
SelectTarget(v) ==
    LET r == HandleComboSelection(v, FALSE, source_last_selection, target_last_selection) IN
    /\ target_lang' = r.var
    /\ source_last_selection' = r.source_last_selection
    /\ target_last_selection' = r.target_last_selection
    /\ actor' = [thread |-> "ui", ran |-> "target_selected", w |-> 0]
    /\ UNCHANGED <<timers, nextAfter, now, source_text, output_text, status, last_translation,
                   last_detected, history, typing_job, source_lang, workers, events, burst,
                   applied>>
    /\ UnchangedField

\* swap_languages(): the Swap button, <Control-Shift-S>; the last selections are
\* not updated
SwapLanguages ==
    /\ IF source_lang = "Auto Detect"
       THEN /\ status' = <<"Cannot swap while source is Auto Detect.">>
            /\ UNCHANGED <<source_lang, target_lang>>
       ELSE /\ source_lang' = target_lang
            /\ target_lang' = source_lang
            /\ UNCHANGED status
    /\ actor' = [thread |-> "ui", ran |-> "swap_languages", w |-> 0]
    /\ UNCHANGED <<timers, nextAfter, now, source_text, output_text, last_translation,
                   last_detected, history, typing_job, workers, events, burst, applied>>
    /\ UnchangedField
    /\ UnchangedSelection

\* stop_speaking(): tts_engine.stop() on the UI thread, whatever the speech workers
\* are doing inside the engine; an exception of stop() is swallowed
StopSpeaking ==
    /\ events' = events + 1
    /\ status' = <<"Stopped speaking.">>
    /\ actor' = [thread |-> "ui", ran |-> "stop_speaking", w |-> 0]
    /\ UNCHANGED <<timers, nextAfter, now, source_text, output_text, last_translation,
                   last_detected, history, typing_job, source_lang, target_lang, workers,
                   burst, applied>>
    /\ UnchangedField
    /\ UnchangedSelection

(* ---------------- TranslatorApp: the scheduler runs a callback ---------------- *)
Due(cb) == timers # <<>> /\ Head(timers).due <= now /\ Head(timers).cb = cb

\* the debounce timer fires: translate()
FireTranslate ==
    /\ Due("translate")
    /\ TranslateBody(Tail(timers), "timer")
    /\ UNCHANGED <<now, events>>
    /\ UnchangedField
    /\ UnchangedSelection

\* the paste timer fires: _on_input_change()
FireOnInputChange ==
    /\ Due("on_input_change")
    /\ OnInputChangeBody(Tail(timers))
    /\ UNCHANGED <<now, events, source_text>>
    /\ UnchangedField
    /\ UnchangedSelection

\* lambda: self._apply_translation(result)
RunApplyTranslation ==
    /\ Due("apply")
    /\ ApplyTranslationBody(Head(timers).arg.res, Head(timers).arg.w)
    /\ timers' = Tail(timers)
    /\ UNCHANGED <<nextAfter, now, events, source_text, typing_job, source_lang,
                   target_lang, burst>>
    /\ UnchangedField
    /\ UnchangedSelection

\* a failure handler that retries: it starts a new worker for the same request
RunHandleErrorRetry ==
    /\ Due("handle_error")
    /\ LET w == Head(timers).arg.w IN
         /\ status' = <<"Translation failed. Check network/API limits.">>
         /\ workers' = Append([workers EXCEPT ![w].ran = Append(@, "handle_error"),
                                              ![w].gotExc = workers[w].exc],
                              NewWorker("translate", workers[w].text, workers[w].src,
                                        workers[w].dest))
         /\ actor' = [thread |-> "ui", ran |-> "handle_error", w |-> w]
    /\ timers' = Tail(timers)
    /\ UNCHANGED <<nextAfter, now, events, source_text, output_text, last_translation,
                   last_detected, history, typing_job, source_lang, target_lang, burst, applied>>
    /\ UnchangedField
    /\ UnchangedSelection

\* lambda: self._handle_error(exc), reading `exc` in the worker's frame: once the
\* worker has left its except block the name is unbound and the lambda raises NameError
RunHandleError ==
    /\ Due("handle_error")
    /\ LET w == Head(timers).arg.w IN
         IF workers[w].excBound
         THEN /\ status' = <<"Translation failed. Check network/API limits.">>
              /\ workers' = [workers EXCEPT ![w].ran = Append(@, "handle_error"),
                                            ![w].gotExc = workers[w].exc]
              /\ actor' = [thread |-> "ui", ran |-> "handle_error", w |-> w]
         ELSE /\ workers' = [workers EXCEPT ![w].ran = Append(@, "NameError")]
              /\ actor' = [thread |-> "ui", ran |-> "NameError", w |-> w]
              /\ UNCHANGED status
    /\ timers' = Tail(timers)
    /\ UNCHANGED <<nextAfter, now, events, source_text, output_text, last_translation,
                   last_detected, history, typing_job, source_lang, target_lang, burst, applied>>
    /\ UnchangedField
    /\ UnchangedSelection

\* lambda: self.set_status(f"TTS failed: {exc}"), reading `exc` the same way
RunTtsFailed ==
    /\ Due("tts_failed")
    /\ LET w == Head(timers).arg.w IN
         IF workers[w].excBound
         THEN /\ status' = <<"TTS failed", workers[w].exc>>
              /\ workers' = [workers EXCEPT ![w].ran = Append(@, "tts_failed"),
                                            ![w].gotExc = workers[w].exc]
              /\ actor' = [thread |-> "ui", ran |-> "tts_failed", w |-> w]
         ELSE /\ workers' = [workers EXCEPT ![w].ran = Append(@, "NameError")]
              /\ actor' = [thread |-> "ui", ran |-> "NameError", w |-> w]
              /\ UNCHANGED status
    /\ timers' = Tail(timers)
    /\ UNCHANGED <<nextAfter, now, events, source_text, output_text, last_translation,
                   last_detected, history, typing_job, source_lang, target_lang, burst, applied>>
    /\ UnchangedField
    /\ UnchangedSelection

\* lambda: self.set_status("Done speaking.")
RunDoneSpeaking ==
    /\ Due("done_speaking")
    /\ status' = <<"Done speaking.">>
    /\ workers' = [workers EXCEPT ![Head(timers).arg.w].ran = Append(@, "done_speaking")]
    /\ actor' = [thread |-> "ui", ran |-> "done_speaking", w |-> Head(timers).arg.w]
    /\ timers' = Tail(timers)
    /\ UNCHANGED <<nextAfter, now, events, source_text, output_text, last_translation,
                   last_detected, history, typing_job, source_lang, target_lang, burst, applied>>
    /\ UnchangedField
    /\ UnchangedSelection

\* time passes, never beyond the next pending callback
AdvanceTime(d) ==
    /\ timers # <<>>
    /\ d > 0
    /\ now + d <= Head(timers).due
    /\ now' = now + d
    /\ UNCHANGED <<timers, nextAfter>>
    /\ UNCHANGED appVars
    /\ UnchangedField
    /\ UnchangedSelection

(* ---------------- TranslatorApp: worker threads ---------------- *)
\* what translator.translate(text, src, dest) may return
ServiceResults(text, src, dest) ==
    {[text |-> t, src |-> IF src = "auto" THEN "es" ELSE src, dest |-> dest] :
        t \in {<<"T">> \o text \o <<" ">>}}

\* what the blocking call may raise
ServiceErrors == {"ConnectError"}

UiUntouched ==
    UNCHANGED <<now, events, source_text, output_text, status, last_translation,
                last_detected, history, typing_job, source_lang, target_lang, burst, applied>>

\* a worker that applies its result itself instead of handing it to the UI thread
WorkerReturnsDirect(w) ==
    /\ w \in 1..Len(workers)
    /\ workers[w].pc = "call"
    /\ workers[w].kind = "translate"
    /\ \E r \in ServiceResults(workers[w].text, workers[w].src, workers[w].dest) :
        LET translation == Strip(r.text) IN
        /\ last_translation' = translation
        /\ last_detected' = CodeToName(r.src)
        /\ output_text' = [body |-> translation, note |-> CodeToName(r.src)]
        /\ status' = <<"Translated", CodeToName(r.src), CodeToName(r.dest)>>
        /\ history' = DequeAppend(history, HistoryEntry(r))
        /\ applied' = Append(applied, HistoryEntry(r))
        /\ workers' = [workers EXCEPT ![w].pc = "done", ![w].outcome = "returned",
                                      ![w].value = r, ![w].enq = Append(@, "success"),
                                      ![w].ran = Append(@, "apply"), ![w].got = r]
    /\ actor' = [thread |-> "worker", ran |-> "returns", w |-> w]
    /\ UNCHANGED <<timers, nextAfter, now, events, source_text, typing_job, source_lang,
                   target_lang, burst>>
    /\ UnchangedField
    /\ UnchangedSelection

\* _translate_worker / _speak_worker: the blocking call returns and the worker
\* hands the success callback to root.after(0, ...)
WorkerReturns(w) ==
    /\ w \in 1..Len(workers)
    /\ workers[w].pc = "call"
    /\ \E r \in (IF workers[w].kind = "translate"
                 THEN ServiceResults(workers[w].text, workers[w].src, workers[w].dest)
                 ELSE {NoResult}) :
        /\ workers' = [workers EXCEPT ![w].pc = "done", ![w].outcome = "returned",
                                      ![w].value = r, ![w].enq = Append(@, "success")]
        /\ timers' = After(timers, nextAfter, now, 0,
                           IF workers[w].kind = "translate" THEN "apply" ELSE "done_speaking",
                           [w |-> w, res |-> r])
    /\ nextAfter' = nextAfter + 1
    /\ actor' = [thread |-> "worker", ran |-> "returns", w |-> w]
    /\ UiUntouched
    /\ UnchangedField
    /\ UnchangedSelection

\* the blocking call raises: the except block hands the failure callback, a
\* lambda over the local `exc`, to root.after(0, ...)
WorkerRaises(w) ==
    /\ w \in 1..Len(workers)
    /\ workers[w].pc = "call"
    /\ \E e \in ServiceErrors :
        workers' = [workers EXCEPT ![w].pc = "except", ![w].outcome = "raised",
                                   ![w].exc = e, ![w].excBound = TRUE,
                                   ![w].enq = Append(@, "failure")]
    /\ timers' = After(timers, nextAfter, now, 0,
                       IF workers[w].kind = "translate" THEN "handle_error" ELSE "tts_failed",
                       [w |-> w, res |-> NoResult])
    /\ nextAfter' = nextAfter + 1
    /\ actor' = [thread |-> "worker", ran |-> "raises", w |-> w]
    /\ UiUntouched
    /\ UnchangedField
    /\ UnchangedSelection

\* the worker returns from the except block: Python unbinds `exc`
WorkerLeavesExcept(w) ==
    /\ w \in 1..Len(workers)
    /\ workers[w].pc = "except"
    /\ workers' = [workers EXCEPT ![w].pc = "done", ![w].excBound = FALSE]
    /\ actor' = [thread |-> "worker", ran |-> "leaves_except", w |-> w]
    /\ UNCHANGED <<timers, nextAfter>>
    /\ UiUntouched
    /\ UnchangedField
    /\ UnchangedSelection

\* what the user may have in the input widget
Texts == {<<>>, <<"h", "i", " ">>}
\* how far the clock moves in one step, besides up to the next callback
TimeSteps == {325}

ToNextDue == IF timers # <<>> THEN Head(timers).due - now ELSE 0

\* the translator with its workers and their callbacks; the clock moves from one
\* pending callback to the next
NextApp ==
    \/ events < MaxEvents /\ \E t \in Texts : KeyRelease(t)
    \/ events < MaxEvents /\ TranslatePressed
    \/ events < MaxEvents /\ SpeakTranslation
    \/ FireTranslate
    \/ RunApplyTranslation
    \/ RunHandleError
    \/ RunTtsFailed
    \/ RunDoneSpeaking
    \/ AdvanceTime(ToNextDue)
    \/ \E w \in 1..Len(workers) : WorkerReturns(w)
    \/ \E w \in 1..Len(workers) : WorkerRaises(w)
    \/ \E w \in 1..Len(workers) : WorkerLeavesExcept(w)

SpecApp == InitApp /\ [][NextApp]_vars

\* the debounce timer against the clock, while the translation service is slow
\* (no worker finishes)
NextDebounce ==
    \/ events < MaxEvents /\ \E t \in Texts : KeyRelease(t)
    \/ events < MaxEvents /\ \E t \in Texts : Paste(t)
    \/ events < MaxEvents /\ TranslatePressed
    \/ FireTranslate
    \/ FireOnInputChange
    \/ \E d \in TimeSteps \cup {ToNextDue} : AdvanceTime(d)

SpecDebounce == InitApp /\ [][NextDebounce]_vars

\* texts typed while the history log fills: a short one and one longer than a preview
HistoryTexts == {<<"h", "i">>, [i \in 1..(PreviewLen + 1) |-> "x"]}

\* nothing is pending: no callback, no worker inside its blocking call
Idle == timers = <<>> /\ \A w \in 1..Len(workers) : workers[w].pc = "done"

\* the history log: the user types, the debounce timer translates, the result is
\* applied, and only then the user types again
NextHistory ==
    \/ Idle /\ events < MaxRequests /\ \E t \in HistoryTexts : KeyRelease(t)
    \/ AdvanceTime(ToNextDue)
    \/ FireTranslate
    \/ \E w \in 1..Len(workers) : WorkerReturns(w)
    \/ RunApplyTranslation

SpecHistory == InitApp /\ [][NextHistory]_vars

\* texts of two different requests
StaleTexts == {<<"a">>, <<"b">>}

\* requests in flight together: the user types and translates again while earlier
\* workers are still inside their blocking call, and the workers return in any order
NextStale ==
    \/ events < MaxEvents /\ \E t \in StaleTexts : KeyRelease(t)
    \/ events < MaxEvents /\ TranslatePressed
    \/ AdvanceTime(ToNextDue)
    \/ FireTranslate
    \/ \E w \in 1..Len(workers) : WorkerReturns(w)
    \/ RunApplyTranslation

SpecStale == InitApp /\ [][NextStale]_vars

\* the speech engine: the user translates a text, then presses Speak and Stop while
\* speech workers are inside say()/runAndWait(), which may return or raise at any
\* time; Stop may still be pressed after the last of the other events
NextSpeech ==
    \/ events < MaxEvents /\ \E t \in Texts : KeyRelease(t)
    \/ events < MaxEvents /\ SpeakTranslation
    \/ events <= MaxEvents /\ StopSpeaking
    \/ AdvanceTime(ToNextDue)
    \/ FireTranslate
    \/ RunApplyTranslation
    \/ RunTtsFailed
    \/ RunDoneSpeaking
    \/ \E w \in 1..Len(workers) : workers[w].kind = "translate" /\ WorkerReturns(w)
    \/ \E w \in 1..Len(workers) : workers[w].kind = "speak" /\ WorkerReturns(w)
    \/ \E w \in 1..Len(workers) : workers[w].kind = "speak" /\ WorkerRaises(w)
    \/ \E w \in 1..Len(workers) : WorkerLeavesExcept(w)

SpecSpeech == InitApp /\ [][NextSpeech]_vars

\* clearing while requests are in flight: the user types, translates and clears in
\* any order while the workers return when they like
NextClear ==
    \/ events < MaxEvents /\ \E t \in Texts : KeyRelease(t)
    \/ events < MaxEvents /\ TranslatePressed
    \/ events < MaxEvents /\ ClearText
    \/ AdvanceTime(ToNextDue)
    \/ FireTranslate
    \/ \E w \in 1..Len(workers) : WorkerReturns(w)
    \/ RunApplyTranslation

SpecClear == InitApp /\ [][NextClear]_vars

\* the language dropdowns: any number of selections and swaps, around the typing
\* and translating of a run
NextLang ==
    \/ \E v \in SourceValues : SelectSource(v)
    \/ \E v \in TargetValues : SelectTarget(v)
    \/ SwapLanguages
    \/ events < MaxEvents /\ \E t \in Texts : KeyRelease(t)
    \/ events < MaxEvents /\ TranslatePressed

SpecLang == InitApp /\ [][NextLang]_vars

(* ---------------- initial state ---------------- *)
\* ParticleCanvas.__init__(master, particle_count)
InitField ==
    \E c \in InitCounts, seed \in Seeds :
        LET n == Max(c, 0) IN
        /\ particles = [i \in 1..n |-> CreateParticle(seed, 4 * (i - 1), i)]
        /\ desired_count = c
        /\ width = 1
        /\ height = 1
        /\ canvas = [items |-> 1..n, next |-> n + 1, draws |-> 0, deletes |-> 0]
        /\ timers = <<[id |-> 1, due |-> AnimateDelay, cb |-> "animate", arg |-> NoArg]>>
        /\ nextAfter = 2
        /\ now = 0
        /\ steps = 0
        /\ lastOp = [op |-> "init", arg |-> <<c>>]
        /\ prevOp = [op |-> "none", arg |-> <<>>]
        /\ InitTranslator

(* ---------------- operations ---------------- *)
\* set_particle_count(n)
SetParticleCount(n) ==
    /\ steps < MaxSteps
    /\ \E seed \in Seeds :
        LET qs == SetCountParticles(particles, n, seed, 0, canvas.next, <<width, height>>) IN
        /\ particles' = qs
        /\ canvas' = SetCountCanvas(canvas, particles, qs)
    /\ desired_count' = ClampCount(n)
    /\ steps' = steps + 1
    /\ lastOp' = [op |-> "set", arg |-> <<n>>]
    /\ prevOp' = lastOp
    /\ UNCHANGED <<width, height, timers, nextAfter, now>>
    /\ UNCHANGED appVars

\* <Configure>: the canvas has the new size, _handle_resize(event) runs
HandleResize(w, h) ==
    /\ steps < MaxSteps
    /\ width' = w
    /\ height' = h
    /\ \E seed \in Seeds : particles' = ScatterParticles(particles, w, h, seed)
    /\ canvas' = [canvas EXCEPT !.draws = @ + ScatterDraws(particles, w, h)]
    /\ steps' = steps + 1
    /\ lastOp' = [op |-> "resize", arg |-> <<w, h>>]
    /\ prevOp' = lastOp
    /\ UNCHANGED <<desired_count, timers, nextAfter, now>>
    /\ UNCHANGED appVars

\* reseed(): the scatter takes the first draws of the stream, set_particle_count
\* the ones after them
Reseed ==
    /\ steps < MaxSteps
    /\ \E seed \in Seeds :
        LET w == Or1(width)
            h == Or1(height)
            ps == ScatterParticles(particles, w, h, seed)
            qs == SetCountParticles(ps, desired_count, seed, 2 * ScatterDraws(particles, w, h),
                                    canvas.next, <<width, height>>)
            cv == [canvas EXCEPT !.draws = @ + ScatterDraws(particles, w, h)]
        IN /\ particles' = qs
           /\ canvas' = SetCountCanvas(cv, ps, qs)
    /\ desired_count' = ClampCount(desired_count)
    /\ steps' = steps + 1
    /\ lastOp' = [op |-> "reseed", arg |-> <<Or1(width), Or1(height)>>]
    /\ prevOp' = lastOp
    /\ UNCHANGED <<width, height, timers, nextAfter, now>>
    /\ UNCHANGED appVars

\* a tick that does not reschedule itself
AnimateBodyOnce ==
    /\ timers # <<>>
    /\ Head(timers).cb = "animate"
    /\ now' = Max(now, Head(timers).due)
    /\ \E seed \in Seeds :
        particles' = AnimateLoop(particles, Or1(width), Or1(height), seed)
    /\ canvas' = [canvas EXCEPT !.draws = @ + Len(particles)]
    /\ timers' = Tail(timers)
    /\ UNCHANGED nextAfter
    /\ lastOp' = [op |-> "tick", arg |-> <<Or1(width), Or1(height)>>]
    /\ prevOp' = lastOp
    /\ UNCHANGED <<desired_count, width, height>>
    /\ UNCHANGED appVars

\* _animate(): the pending callback fires, one tick, then self.after(35, self._animate)
AnimateBody ==
    /\ timers # <<>>
    /\ Head(timers).cb = "animate"
    /\ now' = Max(now, Head(timers).due)
    /\ \E seed \in Seeds :
        particles' = AnimateLoop(particles, Or1(width), Or1(height), seed)
    /\ canvas' = [canvas EXCEPT !.draws = @ + Len(particles)]
    /\ timers' = After(Tail(timers), nextAfter, now', AnimateDelay, "animate", NoArg)
    /\ nextAfter' = nextAfter + 1
    /\ lastOp' = [op |-> "tick", arg |-> <<Or1(width), Or1(height)>>]
    /\ prevOp' = lastOp
    /\ UNCHANGED <<desired_count, width, height>>
    /\ UNCHANGED appVars

\* a tick of the particle field, counted among its operations
Animate ==
    /\ steps < MaxSteps
    /\ AnimateBody
    /\ steps' = steps + 1

NextField ==
    \/ \E n \in CountInputs : SetParticleCount(n)
    \/ \E w \in DimChoices, h \in DimChoices : HandleResize(w, h)
    \/ Reseed
    \/ Animate

SpecField == InitField /\ [][NextField]_vars

(* ---------------- the animation loop beside the translator ---------------- *)
\* ticks in one run of the animation loop
MaxTicks == 2
\* operations other than ticks in one run of the animation loop
MaxLoopOps == 2

\* what the user types, asks for and resizes to while the loop runs
LoopTexts == {<<"h", "i", " ">>}
LoopCounts == {10}
LoopDims == {3}

\* TranslatorApp.__init__ builds its particle layer with the default count
InitLoop == InitField /\ desired_count = DefaultCount

\* the Tk main loop runs the pending _animate callback when it is due
Tick ==
    /\ timers # <<>>
    /\ Head(timers).due <= MaxTicks * AnimateDelay
    /\ AnimateBody
    /\ UNCHANGED steps

\* the particle field and the translator on the one Tk scheduler
NextLoop ==
    \/ Tick
    \/ \E w \in 1..Len(workers) : WorkerReturns(w)
    \/ RunApplyTranslation
    \/ steps + events < MaxLoopOps /\ \E t \in LoopTexts : KeyRelease(t)
    \/ steps + events < MaxLoopOps /\ TranslatePressed
    \/ steps + events < MaxLoopOps /\ \E n \in LoopCounts : SetParticleCount(n)
    \/ steps + events < MaxLoopOps /\ \E w \in LoopDims, h \in LoopDims : HandleResize(w, h)
    \/ steps + events < MaxLoopOps /\ Reseed

\* the main loop runs the callbacks that are due: one that stays enabled is taken
SpecLoop == InitLoop /\ [][NextLoop]_vars /\ WF_vars(Tick) /\ WF_vars(RunApplyTranslation)

(* ======================= particle field claims ======================= *)
\* max(5, min(n, 150)), written out
ExpectedCount(n) == IF n < 5 THEN 5 ELSE IF n > 150 THEN 150 ELSE n

IsSetStep == lastOp'.op = "set" /\ steps' = steps + 1

\* C1: when set_particle_count(n) returns, the number of particles equals
\* desired_count equals max(5, min(n, 150)), reached in that one call.
C1_SetCountConverges ==
    lastOp.op = "set" =>
        /\ Len(particles) = ExpectedCount(lastOp.arg[1])
        /\ desired_count = ExpectedCount(lastOp.arg[1])

\* a call that grew the field past the upper clamp, and one that landed inside [5,150]
C1_Witness ==
    /\ lastOp.op = "set"
    /\ lastOp.arg[1] = 151
    /\ prevOp.op = "init"
    /\ prevOp.arg[1] = 2
    /\ Len(particles) = 150

\* C2: after a tick every particle has x in [0, width] and y in [-maxSize, height]
\* for the viewport dimensions the tick used (maxSize = 50).
C2_TickKeepsBounds ==
    lastOp.op = "tick" =>
        \A i \in 1..Len(particles) :
            /\ 0 <= particles[i].x
            /\ particles[i].x <= lastOp.arg[1] * Scale
            /\ -50 * Scale <= particles[i].y
            /\ particles[i].y <= lastOp.arg[2] * Scale

\* C5: a second consecutive set_particle_count(n) creates and deletes nothing and
\* leaves the particle collection and desired_count as the first call left them.
C5_SetCountIdempotent ==
    [][(IsSetStep /\ lastOp.op = "set" /\ lastOp'.arg = lastOp.arg) =>
          /\ particles' = particles
          /\ desired_count' = desired_count
          /\ canvas' = canvas]_vars

\* the second of two consecutive set_particle_count(10) calls has returned
C5_Witness ==
    /\ lastOp.op = "set"
    /\ prevOp.op = "set"
    /\ lastOp.arg[1] = 10
    /\ prevOp.arg[1] = 10
    /\ Len(particles) = 10

IsNoLayoutStep ==
    /\ lastOp'.op \in {"resize", "reseed"}
    /\ steps' = steps + 1
    /\ (lastOp'.arg[1] <= 1 \/ lastOp'.arg[2] <= 1)

\* C6: a resize (Configure event or reseed) with width <= 1 or height <= 1 leaves
\* the x and y of every particle unchanged and redraws no particle (the only
\* coords calls are those of particles reseed's set_particle_count creates).
C6_NoLayoutResizeKeepsPositions ==
    [][IsNoLayoutStep =>
          /\ Len(particles') >= Len(particles)
          /\ \A i \in 1..Len(particles) :
                /\ particles'[i].x = particles[i].x
                /\ particles'[i].y = particles[i].y
          /\ canvas'.draws = canvas.draws + (Len(particles') - Len(particles))
          /\ (lastOp'.op = "resize" => particles' = particles)]_vars

\* a Configure event of width 1 arrived at a field that had been scattered
C6_Witness ==
    /\ lastOp.op = "resize"
    /\ lastOp.arg = <<1, 3>>
    /\ prevOp.op = "resize"
    /\ prevOp.arg = <<3, 3>>
    /\ \E i \in 1..Len(particles) : particles[i].x > 0 /\ particles[i].y > 0

\* C7: a shrinking set_particle_count(n) removes exactly the last m - clamp(n)
\* particles, deletes exactly their canvas items (one delete each) and leaves the
\* first clamp(n) particles unchanged and in order.
C7_ShrinkRemovesTail ==
    [][(IsSetStep /\ Len(particles) > ExpectedCount(lastOp'.arg[1])) =>
          LET c == ExpectedCount(lastOp'.arg[1])
              m == Len(particles)
              gone == {particles[i].id : i \in (c + 1)..m}
          IN /\ particles' = SubSeq(particles, 1, c)
             /\ canvas'.items = canvas.items \ gone
             /\ Cardinality(gone) = m - c
             /\ canvas'.deletes = canvas.deletes + (m - c)
             /\ canvas'.next = canvas.next]_vars

\* set_particle_count(40) then set_particle_count(10): 10 particles, 30 deletes
C7_Witness ==
    /\ lastOp.op = "set"
    /\ lastOp.arg[1] = 10
    /\ prevOp.op = "set"
    /\ prevOp.arg[1] = 40
    /\ Len(particles) = 10
    /\ canvas.deletes = 30
    /\ Cardinality(canvas.items) = 10

\* C8: in every reachable state, for any particle_count given at construction,
\* the number of particles lies in [5, 150] and equals desired_count.
C8_CountInRange ==
    /\ Len(particles) >= 5
    /\ Len(particles) <= 150
    /\ Len(particles) = desired_count

(* ======================= translator claims ======================= *)
\* C3: every worker enqueues exactly one callback when its blocking call finishes:
\* if the call raised, only the failure callback, which hands the exception to the
\* failure handler; if it returned, only the success callback, once, with the
\* call's return value.
C3_OneCallbackPerWorker ==
    \A w \in 1..Len(workers) :
        LET k == workers[w] IN
        /\ k.outcome = "none" => k.enq = <<>> /\ k.ran = <<>>
        /\ k.outcome = "returned" =>
              /\ k.enq = <<"success">>
              /\ k.ran \in {<<>>, <<"apply">>, <<"done_speaking">>}
              /\ k.ran = <<"apply">> => k.got = k.value
        /\ k.outcome = "raised" =>
              /\ k.enq = <<"failure">>
              /\ k.ran \in {<<>>, <<"handle_error">>, <<"tts_failed">>}
              /\ k.ran # <<>> => k.gotExc = k.exc

PendingTranslate == SelectSeq(timers, LAMBDA e : e.cb = "translate")

\* C4: a burst of input-change events less than 650 ms apart, with no translate()
\* called by hand in it, results in exactly one call of translate(), 650 ms after
\* the last event: until then exactly one invocation is scheduled, for that time,
\* and every earlier one is cancelled.
C4_DebounceOneTrigger ==
    (burst.last # -1 /\ ~burst.manual) =>
        \/ /\ Len(PendingTranslate) = 1
           /\ PendingTranslate[1].due = burst.last + 650
           /\ burst.calls = <<>>
        \/ /\ PendingTranslate = <<>>
           /\ burst.calls = <<burst.last + 650>>

\* two events 325 ms apart: the first invocation was cancelled, the second ran
C4_Witness ==
    /\ burst.last = 325
    /\ ~burst.manual
    /\ burst.calls = <<975>>
    /\ PendingTranslate = <<>>
    /\ events = 2
    /\ Len(workers) = 1

\* C9: the output text, the status, last_translation, last_detected and the history
\* are written only in steps of the UI thread, and a callback that writes them runs
\* after its worker's blocking call has completed.
C9_WorkersNeverWriteUiState ==
    [][(uiState' # uiState) =>
          /\ actor'.thread = "ui"
          /\ actor'.w # 0 => workers[actor'.w].pc # "call"]_vars

\* the UI thread applied the result of a worker that had finished
C9_Witness ==
    /\ actor.thread = "ui"
    /\ actor.ran = "apply"
    /\ workers[actor.w].pc = "done"
    /\ last_translation = <<"T", "h", "i">>
    /\ Len(history) = 1

\* C10: after k applied translation results the history holds exactly min(k, 10)
\* entries, the most recent ones in the order they were applied.
C10_HistoryKeepsLastTen ==
    LET k == Len(applied)
        n == IF k < 10 THEN k ELSE 10
    IN /\ Len(history) = n
       /\ history = SubSeq(applied, k - n + 1, k)

\* the 11th entry evicted the oldest one
C10_Witness ==
    /\ Len(applied) = 11
    /\ Len(history) = 10
    /\ applied[1] # applied[2]
    /\ history[1] = applied[2]
    /\ history[10] = applied[11]

\* C11: when a translation call fails, the failure handler run on the UI thread
\* only sets the status message: the output text, last_translation, last_detected
\* and the history are left unchanged, no worker is started or restarted and no
\* callback is scheduled (the request is not retried).
C11_FailureOnlySetsStatus ==
    [][(actor'.ran \in {"handle_error", "NameError"} /\ actor'.w # 0
            /\ workers'[actor'.w].kind = "translate") =>
          /\ output_text' = output_text
          /\ last_translation' = last_translation
          /\ last_detected' = last_detected
          /\ history' = history
          /\ Len(workers') = Len(workers)
          /\ \A w \in 1..Len(workers) : workers'[w].pc = workers[w].pc
          /\ Len(timers') <= Len(timers)
          /\ \A i \in 1..Len(timers') : \E j \in 1..Len(timers) : timers'[i] = timers[j]
          /\ (actor'.ran = "handle_error" =>
                status' = <<"Translation failed. Check network/API limits.">>)]_vars

\* a second request failed after a first one had been applied: the first result is
\* still shown and recorded, the status reports the failure
C11_Witness ==
    /\ actor.ran = "handle_error"
    /\ actor.w = 2
    /\ workers[2].kind = "translate"
    /\ status = <<"Translation failed. Check network/API limits.">>
    /\ last_translation = <<"T", "h", "i">>
    /\ output_text.body = <<"T", "h", "i">>
    /\ Len(history) = 1
    /\ Len(workers) = 2

(* ======================= particle field claims, continued ======================= *)
IsLayoutStep ==
    /\ lastOp'.op \in {"resize", "reseed"}
    /\ steps' = steps + 1
    /\ lastOp'.arg[1] > 1
    /\ lastOp'.arg[2] > 1

\* C12: after a resize with width > 1 and height > 1 every particle of the field
\* has 0 <= x <= width and 0 <= y <= height for the new dimensions, while the
\* number of particles and each particle's size, color, dx and dy are unchanged
\* (a reseed may add particles after its scatter, never change the ones it found).
C12_ResizeScattersWithinBounds ==
    [][IsLayoutStep =>
          /\ Len(particles') >= Len(particles)
          /\ (lastOp'.op = "resize" => Len(particles') = Len(particles))
          /\ \A i \in 1..Len(particles') :
                /\ 0 <= particles'[i].x
                /\ particles'[i].x <= lastOp'.arg[1] * Scale
                /\ 0 <= particles'[i].y
                /\ particles'[i].y <= lastOp'.arg[2] * Scale
          /\ \A i \in 1..Len(particles) :
                /\ particles'[i].size = particles[i].size
                /\ particles'[i].color = particles[i].color
                /\ particles'[i].dx = particles[i].dx
                /\ particles'[i].dy = particles[i].dy
                /\ particles'[i].id = particles[i].id]_vars

\* a Configure event of 3 x 3 spread the 40 particles over the whole viewport,
\* both edges included
C12_Witness ==
    /\ lastOp.op = "resize"
    /\ lastOp.arg = <<3, 3>>
    /\ Len(particles) = 40
    /\ \E i \in 1..Len(particles) : particles[i].x = 3 * Scale /\ particles[i].y = 0
    /\ \E i \in 1..Len(particles) : particles[i].x = 0 /\ particles[i].y = 3 * Scale
    /\ \E i, j \in 1..Len(particles) : particles[i].dx # particles[j].dx

IsTickStep == lastOp'.op = "tick" /\ steps' = steps + 1

\* C15: in each tick, for each particle, after x has been advanced by dx, dx is
\* negated if and only if the advanced x is <= 0 or >= width, and dy is never
\* changed by a tick.
C15_BounceAtEdges ==
    [][IsTickStep =>
          /\ Len(particles') = Len(particles)
          /\ \A i \in 1..Len(particles) :
                LET advanced == particles[i].x + particles[i].dx
                    atEdge == advanced <= 0 \/ advanced >= lastOp'.arg[1] * Scale
                IN /\ atEdge => particles'[i].dx = -particles[i].dx
                   /\ ~atEdge => particles'[i].dx = particles[i].dx
                   /\ particles'[i].dy = particles[i].dy]_vars

\* a particle that stood at x = width (3 pixels) moving right by one pixel per
\* tick has moved on to width + 1 and now moves left; it was not wrapped
C15_Witness ==
    /\ lastOp.op = "tick"
    /\ lastOp.arg[1] = 3
    /\ prevOp.op = "resize"
    /\ \E i \in 1..Len(particles) :
          /\ particles[i].x = 4 * Scale
          /\ particles[i].dx = -Scale
          /\ particles[i].y > 0

\* C16: in a tick a particle is wrapped if and only if its advanced y is >= height;
\* the wrap sets y to -size and x to a random integer in [0, width] and changes
\* nothing else: size, color and dy are those before the tick, dx is the one the
\* bounce left, and no particle is created or destroyed.
C16_WrapAtBottom ==
    [][IsTickStep =>
          /\ Len(particles') = Len(particles)
          /\ canvas'.items = canvas.items
          /\ canvas'.next = canvas.next
          /\ canvas'.deletes = canvas.deletes
          /\ \A i \in 1..Len(particles) :
                LET p == particles[i]
                    q == particles'[i]
                    advancedX == p.x + p.dx
                    advancedY == p.y + p.dy
                    bounced == IF advancedX <= 0 \/ advancedX >= lastOp'.arg[1] * Scale
                               THEN -p.dx ELSE p.dx
                IN /\ advancedY >= lastOp'.arg[2] * Scale =>
                        /\ q.y = -p.size * Scale
                        /\ \E n \in 0..lastOp'.arg[1] : q.x = n * Scale
                   /\ advancedY < lastOp'.arg[2] * Scale =>
                        /\ q.y = advancedY
                        /\ q.x = advancedX
                   /\ q.size = p.size
                   /\ q.color = p.color
                   /\ q.dy = p.dy
                   /\ q.dx = bounced
                   /\ q.id = p.id]_vars

\* one tick in a 3 x 3 viewport wrapped some of the 40 particles to y = -size and
\* moved the others down
C16_Witness ==
    /\ lastOp.op = "tick"
    /\ lastOp.arg = <<3, 3>>
    /\ prevOp.op = "resize"
    /\ Len(particles) = 40
    /\ \E i \in 1..Len(particles) :
          particles[i].y = -particles[i].size * Scale /\ particles[i].x = 3 * Scale
    /\ \E i \in 1..Len(particles) :
          particles[i].y = -particles[i].size * Scale /\ particles[i].x = 0
    /\ \E i \in 1..Len(particles) : particles[i].y > 0 /\ particles[i].y < 3 * Scale

\* the particle was not wrapped by the last tick and that tick negated its dx
\* (by C15: its advanced x, which it still has, was at or beyond an edge)
BouncedLastTick(p) ==
    /\ lastOp.op = "tick"
    /\ p.y # -p.size * Scale
    /\ (p.x <= 0 \/ p.x >= lastOp.arg[1] * Scale)

Abs(v) == IF v < 0 THEN -v ELSE v

\* C20: a bounce sends the particle back into the interior: a particle whose dx
\* was negated in one tick is not negated again in the immediately following tick
\* (for width > 2*|dx|).
C20_NoDoubleBounce ==
    [][(IsTickStep /\ lastOp.op = "tick" /\ lastOp'.arg = lastOp.arg) =>
          \A i \in 1..Len(particles) :
             (/\ BouncedLastTick(particles[i])
              /\ particles[i].dx # 0
              /\ lastOp.arg[1] * Scale > 2 * Abs(particles[i].dx)) =>
                 particles'[i].dx = particles[i].dx]_vars

(* ======================= animation loop claim ======================= *)
PendingAnimate == SelectSeq(timers, LAMBDA e : e.cb = "animate")

\* C13: the animation loop is perpetual: in every reachable state exactly one
\* animation tick is pending on the scheduler; each tick runs when it is due and
\* schedules exactly one successor, 35 ms later, under a fresh handle; no other
\* operation (set_particle_count, resize, reseed, translate, the debounce cancel)
\* cancels, delays or duplicates it; hence, the main loop running due callbacks,
\* the ticks keep occurring (here: as many as the run is long).
C13_AnimationLoopPerpetual ==
    /\ [](Len(PendingAnimate) = 1)
    /\ [][IF now' # now
          THEN /\ Len(PendingAnimate) = 1
               /\ Len(PendingAnimate') = 1
               /\ PendingAnimate[1].due = now'
               /\ PendingAnimate'[1].id = nextAfter
               /\ PendingAnimate'[1].id # PendingAnimate[1].id
               /\ PendingAnimate'[1].due = now' + AnimateDelay
          ELSE PendingAnimate' = PendingAnimate]_vars
    /\ <>(Len(PendingAnimate) = 1 /\ PendingAnimate[1].due = (MaxTicks + 1) * AnimateDelay)

\* two ticks have run, at 35 and 70 ms, around two key releases of which the second
\* cancelled the debounce timer of the first; the third tick is pending for 105 ms
C13_Witness ==
    /\ now = 2 * AnimateDelay
    /\ lastOp.op = "tick"
    /\ events = 2
    /\ typing_job # 0
    /\ Len(timers) = 2
    /\ timers[1].cb = "animate"
    /\ timers[1].due = 3 * AnimateDelay
    /\ timers[2].cb = "translate"
    /\ timers[2].id = typing_job
    /\ timers[2].due = AnimateDelay + auto_translate_delay

(* ======================= translator claims, continued ======================= *)
\* C14: every history entry pairs a translation with (the preview of) the source
\* text that was submitted for that translation, also when the input field is
\* edited or cleared between dispatching the request and applying its result.
C14_HistoryPairsSubmittedSource ==
    (actor.ran = "apply" /\ actor.w # 0) =>
        /\ applied # <<>>
        /\ applied[Len(applied)][1] = Preview(workers[actor.w].text)
        /\ applied[Len(applied)][2] = Preview(Strip(workers[actor.w].value.text))

\* C17: translation results are applied in worker-completion order with no request
\* token check: the callback that runs is the oldest pending one, and it writes its
\* worker's result to the output text and last_translation whatever was applied
\* before; so the result of an earlier-submitted request whose worker completed
\* last overwrites a newer one.
C17_AppliedInCompletionOrder ==
    [][(actor'.ran = "apply" /\ actor'.w # 0
            /\ workers'[actor'.w].ran # workers[actor'.w].ran) =>
          LET w == actor'.w IN
          /\ Head(timers).cb = "apply"
          /\ Head(timers).arg.w = w
          /\ Head(timers).arg.res = workers[w].value
          /\ \A i \in 2..Len(timers) : timers[i].cb = "apply" => timers[i].id > Head(timers).id
          /\ last_translation' = Strip(workers[w].value.text)
          /\ output_text'.body = Strip(workers[w].value.text)
          /\ Len(applied') = Len(applied) + 1]_vars

\* 'a' was submitted first and 'b' second, the worker of 'b' completed first: the
\* output shows the translation of 'a' although the one of 'b' had been applied
\* and the input holds 'b'
C17_Witness ==
    /\ Len(workers) = 2
    /\ workers[1].text = <<"a">>
    /\ workers[2].text = <<"b">>
    /\ workers[1].ran = <<"apply">>
    /\ workers[2].ran = <<"apply">>
    /\ actor.ran = "apply"
    /\ actor.w = 1
    /\ Len(applied) = 2
    /\ applied[1][2] = <<"T", "b">>
    /\ applied[2][2] = <<"T", "a">>
    /\ last_translation = <<"T", "a">>
    /\ output_text.body = <<"T", "a">>
    /\ source_text = <<"b">>

\* the speech workers that are inside tts_engine.say() / runAndWait()
InsideEngine == {w \in 1..Len(workers) : workers[w].kind = "speak" /\ workers[w].pc = "call"}

\* C18: the shared speech engine is not protected by mutual exclusion:
\* speak_translation with a translation to speak starts a new worker however many
\* speech workers are inside the engine's say/runAndWait, and stop_speaking calls
\* the engine without waiting for them; neither touches the workers that are
\* inside.
C18_SpeechEngineUnguarded ==
    [][/\ (actor'.ran = "speak_translation" /\ events' = events + 1
              /\ Strip(last_translation) # <<>>) =>
             /\ Len(workers') = Len(workers) + 1
             /\ workers'[Len(workers')].kind = "speak"
             /\ workers'[Len(workers')].pc = "call"
             /\ workers'[Len(workers')].text = Strip(last_translation)
             /\ SubSeq(workers', 1, Len(workers)) = workers
             /\ InsideEngine' = InsideEngine \cup {Len(workers')}
       /\ (actor'.ran = "stop_speaking" /\ events' = events + 1) =>
             /\ workers' = workers
             /\ InsideEngine' = InsideEngine
             /\ status' = <<"Stopped speaking.">>]_vars

\* stop() was called while two speech workers were inside the engine
C18_Witness ==
    /\ actor.ran = "stop_speaking"
    /\ Cardinality(InsideEngine) = 2
    /\ \A w \in InsideEngine : workers[w].text = <<"T", "h", "i">>

\* C19: at any time at most one auto-translate (debounce) timer is pending, and
\* typing_job is either None or the handle of that pending timer, for every
\* interleaving of input-change events, timer firings and manual translate() calls.
C19_OneDebounceTimer ==
    /\ Len(PendingTranslate) <= 1
    /\ typing_job # 0 => (Len(PendingTranslate) = 1 /\ PendingTranslate[1].id = typing_job)

\* the translations submitted before / after the last clear_text()
SubmittedBeforeClear ==
    {w \in 1..Len(workers) : workers[w].kind = "translate" /\ workers[w].cleared}

SubmittedAfterClear ==
    {w \in 1..Len(workers) : workers[w].kind = "translate" /\ ~workers[w].cleared}

\* C21: after clear_text(), last_translation and last_detected are empty and the
\* output is empty, and they stay empty until the result of a translation
\* submitted after the clear is applied; in particular a translation that was
\* already in flight when clear_text() ran does not repopulate them.
C21_ClearedStaysCleared ==
    /\ actor.ran = "clear_text" =>
          /\ last_translation = <<>>
          /\ last_detected = ""
          /\ output_text = [body |-> <<>>, note |-> ""]
    /\ (SubmittedBeforeClear # {} /\ \A w \in SubmittedAfterClear : workers[w].ran = <<>>) =>
          /\ last_translation = <<>>
          /\ last_detected = ""
          /\ output_text = [body |-> <<>>, note |-> ""]

\* the language codes translate() can look up
LanguageCodes == {LANGUAGE_MAP[n] : n \in DOMAIN LANGUAGE_MAP}

\* C22: after any sequence of dropdown selections (a header row or "Auto Detect" in
\* the target dropdown included) and swap_languages calls, once each selection
\* handler has run, the target language is a real language name of LANGUAGE_MAP and
\* the source language is "Auto Detect" or a real language name, so that every
\* request translate() started got its codes from the lookup; swap_languages
\* changes neither language nor last selection when the source is "Auto Detect",
\* and exchanges the two languages otherwise.
C22_LanguagesAlwaysValid ==
    /\ [](/\ target_lang \in DOMAIN LANGUAGE_MAP
          /\ source_lang \in {"Auto Detect"} \cup DOMAIN LANGUAGE_MAP
          /\ target_last_selection \in DOMAIN LANGUAGE_MAP
          /\ source_last_selection \in {"Auto Detect"} \cup DOMAIN LANGUAGE_MAP
          /\ \A w \in 1..Len(workers) :
                workers[w].kind = "translate" =>
                    /\ workers[w].src \in {"auto"} \cup LanguageCodes
                    /\ workers[w].dest \in LanguageCodes)
    /\ [][actor'.ran = "swap_languages" =>
             IF source_lang = "Auto Detect"
             THEN /\ source_lang' = source_lang
                  /\ target_lang' = target_lang
                  /\ source_last_selection' = source_last_selection
                  /\ target_last_selection' = target_last_selection
                  /\ workers' = workers
             ELSE /\ source_lang' = target_lang
                  /\ target_lang' = source_lang]_vars

\* Hindi was picked as source, the languages were swapped, a header row picked in
\* the target dropdown put back the stale last selection English, and translate()
\* looked up English for both sides
C22_Witness ==
    /\ source_lang = "English"
    /\ target_lang = "English"
    /\ source_last_selection = "Hindi"
    /\ target_last_selection = "English"
    /\ actor.ran = "translate"
    /\ Len(workers) = 1
    /\ workers[1].src = "en"
    /\ workers[1].dest = "en"

====
